---- MODULE Spec2Model ----
(***************************************************************************)
(* Model of the multi-source logo resolution engine of svgLogos            *)
(* (services/logoService): term normalisation, the source registry, the    *)
(* result cache, the used/failed ledger with its periodic sweep, the       *)
(* primary lookup searchLogo, the refresh lookup searchLogoAlternative and *)
(* the batch coordinator searchMultipleLogos.                              *)
(*                                                                         *)
(* Strings are sequences of one-character strings; a URL is the sequence   *)
(* of the literal pieces of its template with the term spliced in.         *)
(* The runtime is single-threaded and cooperative: one action is the code  *)
(* that runs between two suspension points (await isValidSvgUrl).          *)
(***************************************************************************)
EXTENDS Integers, Sequences, FiniteSets, TLC

\* ------------------------------------------------------------------ bounds
\* number of registry sources taken from the head of LOGO_SOURCES
NumSources == 2
\* number of lookups (searchLogo, searchLogoAlternative) suspended at the same time
MaxInFlight == 2
\* longest term list handed to searchMultipleLogos
MaxBatch == 2
\* number of firings of the sweep timer
MaxSweeps == 1
\* longest refresh chain that is tracked
MaxChain == 3
\* number of lookups (searchLogo, searchLogoAlternative) started in a run
MaxLookups == 3
\* longest raw string handed to normalizeTerm
MaxTermLen == 3
\* number of user events (search, upload, drop, refresh, delete, clear) in a run
MaxUserEvents == 3
\* largest number of files in one upload or drop
MaxFiles == 2
\* number of saveLogoToInternalRepo calls in a run
MaxSaves == 3
\* number of saveLogoToInternalRepo calls suspended at the same time
MaxSavesInFlight == 2

\* ------------------------------------------------------------- characters
Lower == {"a", "b"}
Upper == {"A", "B"}
Digits == {"1"}
Space == " "

\* String.prototype.toLowerCase on one character
toLowerCaseChar(c) == IF c = "A" THEN "a" ELSE IF c = "B" THEN "b" ELSE c

toLowerCase(s) == [i \in 1..Len(s) |-> toLowerCaseChar(s[i])]

RECURSIVE trimStart(_)
trimStart(s) == IF s # <<>> /\ Head(s) = Space THEN trimStart(Tail(s)) ELSE s

RECURSIVE trimEnd(_)
trimEnd(s) ==
    IF s # <<>> /\ s[Len(s)] = Space THEN trimEnd(SubSeq(s, 1, Len(s) - 1)) ELSE s

\* String.prototype.trim
trim(s) == trimEnd(trimStart(s))

IsAlnum(c) == c \in Lower \cup Digits

\* .replace(/[^a-z0-9]/g, '')
stripNonAlnum(s) == SelectSeq(s, IsAlnum)

\* normalizeTerm with the character filter left out
normalizeTermNoStrip(term) == trim(toLowerCase(term))

\* normalizeTerm: term.toLowerCase().trim().replace(/[^a-z0-9]/g, '')
normalizeTerm(term) == stripNonAlnum(trim(toLowerCase(term)))

\* ---------------------------------------------------------------- registry
\* the placeholder ${term} of a URL template
TERM == "${term}"

LOGO_SOURCES == <<
    [id |-> "simpleIcons", name |-> "Simple Icons", urls |-> <<
        <<"https://raw.githubusercontent.com/simple-icons/simple-icons/develop/icons/", TERM, ".svg">>,
        <<"https://cdn.jsdelivr.net/npm/simple-icons@latest/icons/", TERM, ".svg">>,
        <<"https://raw.githubusercontent.com/simple-icons/simple-icons/master/icons/", TERM, ".svg">> >>],
    [id |-> "vectorLogoZone", name |-> "Vector Logo Zone", urls |-> <<
        <<"https://www.vectorlogo.zone/logos/", TERM, "/", TERM, "-icon.svg">>,
        <<"https://www.vectorlogo.zone/logos/", TERM, "/", TERM, ".svg">> >>],
    [id |-> "iconify", name |-> "Iconify", urls |-> <<
        <<"https://api.iconify.design/", TERM, ".svg">>,
        <<"https://api.iconify.design/logos/", TERM, ".svg">>,
        <<"https://api.iconify.design/logos-", TERM, ".svg">> >>],
    [id |-> "svgPorn", name |-> "SVG Porn", urls |-> <<
        <<"https://cdn.svgporn.com/logos/", TERM, ".svg">>,
        <<"https://cdn.svgporn.com/logos/", TERM, "-icon.svg">> >>],
    [id |-> "gilbarbara", name |-> "Gil Barbara Logos", urls |-> <<
        <<"https://raw.githubusercontent.com/gilbarbara/logos/master/logos/", TERM, ".svg">>,
        <<"https://raw.githubusercontent.com/gilbarbara/logos/master/logos/", TERM, "-icon.svg">> >>],
    [id |-> "wikimedia", name |-> "Wikimedia Commons", urls |-> <<
        <<"https://upload.wikimedia.org/wikipedia/commons/thumb/archive/", TERM, "_logo.svg">>,
        <<"https://upload.wikimedia.org/wikipedia/commons/thumb/archive/", TERM, "-logo.svg">> >>],
    [id |-> "brandLogos", name |-> "Brand Logos", urls |-> <<
        <<"https://www.brandlogos.net/logos/", TERM, "-logo.svg">>,
        <<"https://www.brandlogos.net/logos/", TERM, "_logo.svg">> >> ] >>

\* Object.entries(LOGO_SOURCES), cut to the modelled number of sources
Registry == SubSeq(LOGO_SOURCES, 1, NumSources)

ProviderIds == {Registry[i].id : i \in 1..Len(Registry)}

Provider(id) == CHOOSE p \in {Registry[i] : i \in 1..Len(Registry)} : p.id = id

RECURSIVE urlGen(_, _)
\* a template literal applied to a term
urlGen(template, term) ==
    IF template = <<>> THEN <<>>
    ELSE (IF Head(template) = TERM THEN term ELSE <<Head(template)>>)
         \o urlGen(Tail(template), term)

\* provider.urls.map(urlGen => urlGen(normalizedTerm))
ProviderUrls(id, term) ==
    [i \in 1..Len(Provider(id).urls) |-> urlGen(Provider(id).urls[i], term)]

\* the registry keys in registry order
\* the candidate URLs of one provider for a key, as a set
UrlsOfProvider(id, term) == {ProviderUrls(id, term)[i] : i \in 1..Len(ProviderUrls(id, term))}

ProviderIdSeq == [i \in 1..Len(Registry) |-> Registry[i].id]

\* ------------------------------------------------------------------ inputs
\* raw terms handed in by callers
Terms == {<<" ", "A", "-">>, <<"b">>}

Keys == {normalizeTerm(t) : t \in Terms}

\* a URL that no generator produces (an uploaded or foreign asset)
ForeignUrl == <<"blob:upload">>

AllUrls == UNION {{ProviderUrls(id, k)[i] : i \in 1..Len(ProviderUrls(id, k))} :
                    id \in ProviderIds, k \in Keys}

\* currentProvider?: string  -- the argument may be left out
Undefined == "undefined"

\* Math.random().toString(36).substring(2, 9)
RandomSuffixes == {"k3x9q2a", "p0z7m1c"}

\* ------------------------------------------------------------------- maps
\* Map.prototype.set
MapSet(f, k, v) == [x \in DOMAIN f \cup {k} |-> IF x = k THEN v ELSE f[x]]

\* Map.prototype.delete
MapDelete(f, k) == [x \in DOMAIN f \ {k} |-> f[x]]

\* new Map()
EmptyMap == <<>>

\* the Set made by `|| new Set()`; it is never stored in a map
LocalSet == <<"local">>

\* the members of the Set object a reference points to
SetOf(m, ref) == IF ref = LocalSet THEN {} ELSE m.sets[ref]

\* ---------------------------------------------------------------- results
NoResult == [id |-> <<>>, url |-> <<>>, source |-> "", sourceProvider |-> ""]

\* the not-found message built from the normalized key
NotFoundErrorNormalized(term) == <<"No SVG logo found for: ">> \o normalizeTerm(term)

\* new Error(`No SVG logo found for: ${term}`)
NotFoundError(term) == <<"No SVG logo found for: ">> \o term

\* the alternative lookup failing with the message of the primary lookup
NoAlternativeErrorAsNotFound(term) == <<"No SVG logo found for: ">> \o term

\* new Error(`No alternative SVG logo found for: ${term}`)
NoAlternativeError(term) == <<"No alternative SVG logo found for: ">> \o term

\* new Error('No logos found. Try different search terms.')
NoLogosError == <<"No logos found. Try different search terms.">>

\* outcome of running a lookup up to its next suspension point
Await(m, lk) == [m |-> m, status |-> "await", lk |-> lk, result |-> NoResult, error |-> <<>>]

Return(m, lk, result) == [m |-> m, status |-> "ok", lk |-> lk, result |-> result, error |-> <<>>]

Throw(m, lk, error) == [m |-> m, status |-> "err", lk |-> lk, result |-> NoResult, error |-> error]

\* the call isValidSvgUrl(url): the request is sent and the lookup suspends
Probe(m, lk, urls) ==
    Await([m EXCEPT !.probed = @ \cup {Head(urls)}],
          [lk EXCEPT !.urls = urls, !.trail = Append(@, Head(urls))])

\* ---------------------------------------------------------- isValidSvgUrl
\* String.prototype.includes on strings written as sequences of fragments
includes(s, sub) ==
    \E i \in 1..(Len(s) - Len(sub) + 1) : SubSeq(s, i, i + Len(sub) - 1) = sub

XmlNamespace == "xmlns=\"http://www.w3.org/2000/svg\""

\* the declaration as it reads inside a JSON string: the quotes are escaped
XmlNamespaceEscaped == "xmlns=\\\"http://www.w3.org/2000/svg\\\""

\* a missing content-type header: undefined, falsy like the empty string
NoHeader == <<>>

\* response.headers['content-type']
ContentTypes ==
    {NoHeader,
     <<"image/", "svg", "+xml">>,
     <<"image/", "svg", "+xml", "; charset=utf-8">>,
     <<"text/html">>}

\* response bodies that arrive as text
TextBodies ==
    {<<"<svg", " ", XmlNamespace, ">", "</svg>">>,
     <<"<svg", ">", "</svg>">>,
     <<"<svg", " ", XmlNamespace, ">">>,
     <<XmlNamespace, "</svg>">>,
     <<"<html>", "404", "</html>">>,
     <<>>}

\* response.data: a string, or the object { markup: <text> } axios has parsed
\* from a JSON body
ResponseData ==
    {[typeof |-> "string", text |-> t] : t \in TextBodies}
    \cup {[typeof |-> "object", text |-> <<"<svg", " ", XmlNamespace, ">", "</svg>">>]}

\* JSON.stringify of a parsed body: quotes inside strings are escaped
JSONstringify(data) ==
    <<"{\"markup\":\"">>
    \o [i \in 1..Len(data.text) |->
            IF data.text[i] = XmlNamespace THEN XmlNamespaceEscaped ELSE data.text[i]]
    \o <<"\"}">>

\* HTTP status codes a server answers with
Statuses == {200, 203, 404}

\* what a request can come to: no answer (network error, timeout after 5000 ms)
\* or an answer with status, content-type header and data
Responses ==
    {[kind |-> k, status |-> 0, contentType |-> NoHeader,
      data |-> [typeof |-> "string", text |-> <<>>]] : k \in {"network error", "timeout"}}
    \cup {[kind |-> "response", status |-> st, contentType |-> ct, data |-> d] :
            st \in Statuses, ct \in ContentTypes, d \in ResponseData}

\* axios.get: the promise rejects when there is no answer and, with the
\* default validateStatus, when the status is outside 200..299
axiosGet(response) ==
    IF response.kind # "response" \/ response.status < 200 \/ response.status >= 300
    THEN [threw |-> TRUE, response |-> response]
    ELSE [threw |-> FALSE, response |-> response]

\* the try block of isValidSvgUrl: what it returns, or that it threw
isValidSvgUrlTry(response) ==
    LET got == axiosGet(response)
        contentType == response.contentType
        isContentTypeSvg ==
            /\ contentType # NoHeader
            /\ (includes(contentType, <<"svg">>)
                \/ includes(contentType, <<"image/", "svg", "+xml">>))
        responseText == IF response.data.typeof = "string"
                        THEN response.data.text ELSE JSONstringify(response.data)
        hasSvgTags == includes(responseText, <<"<svg">>) /\ includes(responseText, <<"</svg>">>)
        hasXmlNamespace == includes(responseText, <<XmlNamespace>>)
    IN  IF got.threw THEN [threw |-> TRUE, value |-> FALSE]
        ELSE IF response.status # 200 THEN [threw |-> FALSE, value |-> FALSE]
        ELSE [threw |-> FALSE, value |-> isContentTypeSvg \/ (hasSvgTags /\ hasXmlNamespace)]

\* isValidSvgUrl with the namespace test left out of the body check
isValidSvgUrlTagsOnly(response) ==
    /\ ~axiosGet(response).threw
    /\ response.status = 200
    /\ \/ /\ response.contentType # NoHeader
          /\ includes(response.contentType, <<"svg">>)
       \/ LET responseText == IF response.data.typeof = "string"
                               THEN response.data.text ELSE JSONstringify(response.data)
          IN  includes(responseText, <<"<svg">>) /\ includes(responseText, <<"</svg>">>)

\* isValidSvgUrl(url) for a URL whose request comes to `response`:
\* the catch block turns every throw into false
isValidSvgUrl(response) ==
    LET r == isValidSvgUrlTry(response)
    IN  IF r.threw THEN FALSE ELSE r.value

\* the answers the awaited isValidSvgUrl can give a lookup
ValidatorAnswers == {isValidSvgUrl(response) : response \in Responses}

\* ----------------------------------------------------------- ledger, cache
\* searchCache.get(key) with the lookup left out: always a miss
cacheGetNever(m, key) == NoResult

\* searchCache.get(normalizedTerm); NoResult stands for undefined
cacheGet(m, key) == IF key \in DOMAIN m.cache THEN m.cache[key] ELSE NoResult

\* recording a used source left out
addUsedSkip(m, key, providerId) == m

\* the used set replaced by a set holding only the new provider
addUsedReplace(m, key, providerId) == [m EXCEPT !.used = MapSet(@, key, {providerId})]

\* if (!usedSources.has(key)) usedSources.set(key, new Set()); usedSources.get(key)?.add(providerId)
addUsed(m, key, providerId) ==
    [m EXCEPT !.used = MapSet(@, key,
        (IF key \in DOMAIN @ THEN @[key] ELSE {}) \cup {providerId})]

\* if (!usedSources.has(key)) usedSources.set(key, new Set())
initUsed(m, key) ==
    IF key \in DOMAIN m.used THEN m ELSE [m EXCEPT !.used = MapSet(@, key, {})]

\* if (!failedSources.has(key)) failedSources.set(key, new Set())
\* the new Set object is named by its key and the sweep period it is made in
initFailed(m, key) ==
    IF key \in DOMAIN m.failed THEN m
    ELSE [m EXCEPT !.failed = MapSet(@, key, <<key, m.epoch>>),
                   !.sets = MapSet(@, <<key, m.epoch>>, {})]

\* the exhausted provider noted but not added to the Set object
addFailedHeldSkip(m, lk, providerId) ==
    [m EXCEPT !.marked = @ \cup {<<lk.key, providerId>>}]

\* termFailedSources.add(providerId) on the Set object the lookup holds
addFailedHeld(m, lk, providerId) ==
    [m EXCEPT !.sets = MapSet(@, lk.tfs, @[lk.tfs] \cup {providerId}),
              !.marked = @ \cup {<<lk.key, providerId>>}]

\* failedSources.get(key)?.add(providerId) on the Set object now in the map
addFailedCurrent(m, key, providerId) ==
    LET m1 == initFailed(m, key)
    IN  [m1 EXCEPT !.sets = MapSet(@, m1.failed[key], @[m1.failed[key]] \cup {providerId}),
                   !.marked = @ \cup {<<key, providerId>>}]

\* ------------------------------------------------------------- searchLogo
PrimaryResult(providerId, key, url) ==
    [id |-> <<providerId, "-">> \o key, url |-> url,
     source |-> providerId, sourceProvider |-> Provider(providerId).name]

RECURSIVE searchLogoLoop(_, _)
\* the for-loop over Object.entries(LOGO_SOURCES), entered at lk.provs' head
searchLogoLoop(m, lk) ==
    IF lk.provs = <<>> THEN Throw(m, lk, NotFoundError(lk.term))
    ELSE IF Head(lk.provs) \in SetOf(m, lk.tfs)
         THEN searchLogoLoop(m, [lk EXCEPT !.provs = Tail(@)])
         ELSE Probe(m, lk, ProviderUrls(Head(lk.provs), lk.key))

\* a lookup record; the last five fields are bookkeeping for the properties
\* (swept: the setInterval callback has run while the lookup was suspended)
NewLookup(kind, term, currentUrl, currentProvider, tfs, provs) ==
    [kind |-> kind, term |-> term, key |-> normalizeTerm(term),
     currentUrl |-> currentUrl, currentProvider |-> currentProvider,
     tfs |-> tfs, provs |-> provs, urls |-> <<>>, trail |-> <<>>,
     prev |-> <<>>, mustSkip |-> {}, overlap |-> FALSE, chained |-> FALSE,
     swept |-> FALSE]

\* searchLogo with the used and failed sets initialised before the cache check
searchLogoInitFirst(m, term) ==
    LET normalizedTerm == normalizeTerm(term)
        cachedResult == cacheGet(m, normalizedTerm)
        m1 == initFailed(initUsed(m, normalizedTerm), normalizedTerm)
        lk == NewLookup("searchLogo", term, <<>>, Undefined,
                        m1.failed[normalizedTerm], ProviderIdSeq)
    IN  IF cachedResult # NoResult
        THEN Return(m1, NewLookup("searchLogo", term, <<>>, Undefined, LocalSet, <<>>),
                    cachedResult)
        ELSE searchLogoLoop(m1, lk)

\* searchLogo from its entry to the first suspension point
searchLogo(m, term) ==
    LET normalizedTerm == normalizeTerm(term)
        cachedResult == cacheGet(m, normalizedTerm)
        m1 == initFailed(initUsed(m, normalizedTerm), normalizedTerm)
        lk == NewLookup("searchLogo", term, <<>>, Undefined,
                        m1.failed[normalizedTerm], ProviderIdSeq)
    IN  IF cachedResult # NoResult
        THEN Return(m, NewLookup("searchLogo", term, <<>>, Undefined, LocalSet, <<>>),
                    cachedResult)
        ELSE searchLogoLoop(m1, lk)

\* searchLogo resumed with the answer of the awaited isValidSvgUrl(url)
searchLogoResume(m, lk, valid) ==
    LET providerId == Head(lk.provs)
        url == Head(lk.urls)
        result == PrimaryResult(providerId, lk.key, url)
    IN  IF valid
        THEN Return([addUsed(m, lk.key, providerId) EXCEPT
                        !.cache = MapSet(@, lk.key, result)], lk, result)
        ELSE IF Len(lk.urls) > 1
             THEN Probe(m, lk, Tail(lk.urls))
             ELSE searchLogoLoop(addFailedHeld(m, lk, providerId),
                                 [lk EXCEPT !.provs = Tail(@)])

\* -------------------------------------------------- searchLogoAlternative
\* the candidate URLs of a provider with the current URL left in
urlsToTryAll(providerId, key, currentUrl) == ProviderUrls(providerId, key)

\* provider.urls.map(urlGen => urlGen(normalizedTerm)).filter(url => url !== currentUrl)
urlsToTry(providerId, key, currentUrl) ==
    SelectSeq(ProviderUrls(providerId, key), LAMBDA url : url # currentUrl)

\* searchCache.delete left out
invalidateCacheSkip(m, key) == m

\* searchCache.delete(normalizedTerm)
invalidateCache(m, key) == [m EXCEPT !.cache = MapDelete(@, key)]

\* the prioritized provider list: unused, then used ones, then the current one
prioritizedProviders(termUsedSources, termFailedSources, currentProvider) ==
    LET unusedProviders == SelectSeq(ProviderIdSeq, LAMBDA providerId :
            providerId \notin termUsedSources /\ providerId \notin termFailedSources)
        usedProviders == SelectSeq(ProviderIdSeq, LAMBDA providerId :
            /\ providerId \in termUsedSources
            /\ providerId # currentProvider
            /\ providerId \notin termFailedSources)
        currentProviderEntry ==
            IF currentProvider # Undefined /\ currentProvider \notin termFailedSources
            THEN SelectSeq(ProviderIdSeq, LAMBDA providerId : providerId = currentProvider)
            ELSE <<>>
    IN  unusedProviders \o usedProviders \o currentProviderEntry

AlternativeResult(providerId, key, url, suffix) ==
    [id |-> <<providerId, "-">> \o key \o <<"-", suffix>>, url |-> url,
     source |-> providerId, sourceProvider |-> Provider(providerId).name]

\* "all URLs for this provider failed" of searchLogoAlternative recording nothing
markFailedAlternativeSkip(m, lk, providerId) == m

\* "all URLs for this provider failed" of searchLogoAlternative
markFailedAlternative(m, lk, providerId) ==
    IF providerId \notin SetOf(m, lk.tfs)
    THEN addFailedCurrent(m, lk.key, providerId)
    ELSE m

RECURSIVE searchLogoAlternativeLoop(_, _)
\* the for-loop over prioritizedProviders, entered at lk.provs' head
searchLogoAlternativeLoop(m, lk) ==
    IF lk.provs = <<>> THEN Throw(m, lk, NoAlternativeError(lk.term))
    ELSE LET urls == urlsToTry(Head(lk.provs), lk.key, lk.currentUrl)
         IN  IF urls # <<>>
             THEN Probe(m, lk, urls)
             ELSE searchLogoAlternativeLoop(
                     markFailedAlternative(m, lk, Head(lk.provs)),
                     [lk EXCEPT !.provs = Tail(@)])

\* searchLogoAlternative from its entry to the first suspension point
searchLogoAlternative(m, term, currentUrl, currentProvider) ==
    LET normalizedTerm == normalizeTerm(term)
        m1 == invalidateCache(m, normalizedTerm)
        termUsedSources ==
            IF normalizedTerm \in DOMAIN m1.used THEN m1.used[normalizedTerm] ELSE {}
        tfs == IF normalizedTerm \in DOMAIN m1.failed
               THEN m1.failed[normalizedTerm] ELSE LocalSet
        lk == NewLookup("searchLogoAlternative", term, currentUrl, currentProvider, tfs,
                prioritizedProviders(termUsedSources, SetOf(m1, tfs), currentProvider))
    IN  searchLogoAlternativeLoop(m1, lk)

\* searchLogoAlternative storing the Result it returns in the cache
searchLogoAlternativeResumeCaching(m, lk, valid, suffix) ==
    LET providerId == Head(lk.provs)
        url == Head(lk.urls)
        result == AlternativeResult(providerId, lk.key, url, suffix)
    IN  IF valid
        THEN Return([addUsed(m, lk.key, providerId) EXCEPT
                        !.cache = MapSet(@, lk.key, result)], lk, result)
        ELSE IF Len(lk.urls) > 1
             THEN Probe(m, lk, Tail(lk.urls))
             ELSE searchLogoAlternativeLoop(
                     markFailedAlternative(m, lk, providerId),
                     [lk EXCEPT !.provs = Tail(@)])

\* searchLogoAlternative resumed with the answer of the awaited isValidSvgUrl(url)
searchLogoAlternativeResume(m, lk, valid, suffix) ==
    LET providerId == Head(lk.provs)
        url == Head(lk.urls)
    IN  IF valid
        THEN Return(addUsed(m, lk.key, providerId), lk,
                    AlternativeResult(providerId, lk.key, url, suffix))
        ELSE IF Len(lk.urls) > 1
             THEN Probe(m, lk, Tail(lk.urls))
             ELSE searchLogoAlternativeLoop(
                     markFailedAlternative(m, lk, providerId),
                     [lk EXCEPT !.provs = Tail(@)])

\* ---------------------------------------------------- searchMultipleLogos
\* the async wrapper of terms.map without its try/catch: a throw rejects
settleNoCatch(term, r) ==
    IF r.status = "ok"
    THEN [status |-> "fulfilled", term |-> term, success |-> TRUE, logo |-> r.result,
          error |-> <<>>, lk |-> r.lk]
    ELSE IF r.status = "err"
    THEN [status |-> "rejected", term |-> term, success |-> FALSE, logo |-> NoResult,
          error |-> r.error, lk |-> r.lk]
    ELSE [status |-> "pending", term |-> term, success |-> FALSE, logo |-> NoResult,
          error |-> <<>>, lk |-> r.lk]

\* the async wrapper of terms.map: { term, logo, success: true } or
\* { term, error, success: false }; pending while its searchLogo is suspended
settle(term, r) ==
    IF r.status = "ok"
    THEN [status |-> "fulfilled", term |-> term, success |-> TRUE, logo |-> r.result,
          error |-> <<>>, lk |-> r.lk]
    ELSE IF r.status = "err"
    THEN [status |-> "fulfilled", term |-> term, success |-> FALSE, logo |-> NoResult,
          error |-> r.error, lk |-> r.lk]
    ELSE [status |-> "pending", term |-> term, success |-> FALSE, logo |-> NoResult,
          error |-> <<>>, lk |-> r.lk]

RECURSIVE launch(_, _, _)
\* terms.map(async (term) => ...): every searchLogo runs to its first suspension
launch(m, terms, subs) ==
    IF terms = <<>> THEN [m |-> m, subs |-> subs]
    ELSE LET r == searchLogo(m, Head(terms))
         IN  launch(r.m, Tail(terms), Append(subs, settle(Head(terms), r)))

\* failedTerms filled with the normalized keys instead of the caller's strings
failedTermsNormalized(results) ==
    LET failed == SelectSeq(results, LAMBDA x :
            x.status = "fulfilled" /\ ~(x.success /\ x.logo # NoResult))
    IN  [i \in 1..Len(failed) |-> normalizeTerm(failed[i].term)]

\* results.forEach: failedTerms.push(result.value.term)
failedTerms(results) ==
    LET failed == SelectSeq(results, LAMBDA x :
            x.status = "fulfilled" /\ ~(x.success /\ x.logo # NoResult))
    IN  [i \in 1..Len(failed) |-> failed[i].term]

\* the successes pushed in reverse of the wrappers' order
successfulResultsReversed(results) ==
    LET succeeded == SelectSeq(results, LAMBDA x :
            x.status = "fulfilled" /\ x.success /\ x.logo # NoResult)
    IN  [i \in 1..Len(succeeded) |-> succeeded[Len(succeeded) + 1 - i].logo]

\* results.forEach: successfulResults.push(result.value.logo)
successfulResults(results) ==
    LET succeeded == SelectSeq(results, LAMBDA x :
            x.status = "fulfilled" /\ x.success /\ x.logo # NoResult)
    IN  [i \in 1..Len(succeeded) |-> succeeded[i].logo]

\* no searchMultipleLogos call has ended in this step
NoBatch == [terms |-> <<>>, ok |-> FALSE, successes |-> <<>>, failures |-> <<>>,
            error |-> <<>>, settled |-> FALSE, results |-> <<>>]

\* the throw on an empty successes list left out
batchOutcomeNoThrow(terms, results) ==
    [terms |-> terms, ok |-> TRUE, successes |-> successfulResults(results),
     failures |-> failedTerms(results), error |-> <<>>, settled |-> TRUE,
     results |-> results]

\* searchMultipleLogos after Promise.allSettled has resolved: what it returns
\* or throws, with the settled wrappers (results) kept for the properties
batchOutcome(terms, results) ==
    IF Len(successfulResults(results)) = 0
    THEN [terms |-> terms, ok |-> FALSE, successes |-> <<>>, failures |-> <<>>,
          error |-> NoLogosError, settled |-> TRUE, results |-> results]
    ELSE [terms |-> terms, ok |-> TRUE, successes |-> successfulResults(results),
          failures |-> failedTerms(results), error |-> <<>>, settled |-> TRUE,
          results |-> results]

AllSettled(subs) == \A i \in 1..Len(subs) : subs[i].status # "pending"

\* ------------------------------------------------------------------ state
VARIABLES
    searchCache,    \* Map key -> Result
    usedSources,    \* Map key -> set of provider ids
    failedSources,  \* Map key -> reference to a Set object
    sets,           \* the Set objects made for failedSources, by reference
    epoch,          \* number of sweeps so far
    calls,          \* the calls in flight, by slot
    event,          \* what the last step did: completions, probes, failures marked
    lastUrl,        \* key -> url last returned by searchLogo since the last cache delete
    ghostFailed,    \* key -> providers found exhausted since the last sweep
    everValid,      \* keys for which isValidSvgUrl has ever answered true
    chain,          \* the tracked refresh chain: term, source, urls returned
    started,        \* number of lookups started so far
    logos,          \* WorkArea: the grid, useState<Logo[]>([])
    isLoading,      \* WorkArea: useState(false)
    uiError,        \* WorkArea: the error state, useState<string | null>(null)
    handlers,       \* WorkArea: the event handlers suspended in an await
    userEvents,     \* WorkArea: number of user events handled so far
    invocation,     \* the pure function under evaluation and its arguments
    returned,       \* what it returned
    logoSearches,   \* repository: the rows of the logo_searches table, in insertion order
    storageBucket,  \* repository: the file names uploaded to the storage bucket
    uuids,          \* repository: number of uuidv4() values drawn so far
    saves,          \* repository: the saveLogoToInternalRepo calls in flight, by slot
    saveCalls,      \* repository: number of saveLogoToInternalRepo calls so far
    saved           \* repository: what the save that ended in the last step did

\* the state of the logo service
serviceVars == <<searchCache, usedSources, failedSources, sets, epoch, calls, event,
                 lastUrl, ghostFailed, everValid, chain, started>>

\* the state of the WorkArea component
workAreaVars == <<logos, isLoading, uiError, handlers, userEvents>>

\* one evaluation of a pure function
evalVars == <<invocation, returned>>

\* the internal repository (table and bucket) and the saves under way
repoVars == <<logoSearches, storageBucket, uuids, saves, saveCalls, saved>>

vars == <<searchCache, usedSources, failedSources, sets, epoch, calls, event,
          lastUrl, ghostFailed, everValid, chain, started,
          logos, isLoading, uiError, handlers, userEvents, invocation, returned,
          logoSearches, storageBucket, uuids, saves, saveCalls, saved>>

Idle == [op |-> "idle"]

NoChain == [term |-> <<>>, source |-> Undefined, urls |-> <<>>]

NoEvent == [act |-> "init", done |-> <<>>, batch |-> NoBatch, probed |-> {}, marked |-> {}]

\* the module state handed to the code of one step
Machine ==
    [cache |-> searchCache, used |-> usedSources, failed |-> failedSources,
     sets |-> sets, epoch |-> epoch, probed |-> {}, marked |-> {}]

\* a call in flight has at least one suspended lookup
Slots == 1..MaxInFlight

IdleSlots == {s \in Slots : calls[s] = Idle}

FreeSlot == CHOOSE s \in IdleSlots : \A t \in IdleSlots : s <= t

\* the suspended lookups of a call table
RunningLookups(c) ==
    {c[s].lk : s \in {t \in Slots : c[t].op \in {"searchLogo", "searchLogoAlternative"}}}
    \cup UNION {{c[s].subs[i].lk : i \in {j \in 1..Len(c[s].subs) : c[s].subs[j].status = "pending"}} :
                s \in {t \in Slots : c[t].op = "searchMultipleLogos"}}

\* the number of suspended lookups of a call table
InFlight(c) ==
    Cardinality({s \in Slots : c[s].op \in {"searchLogo", "searchLogoAlternative"}})
    + Cardinality(UNION {{<<s, i>> : i \in {j \in 1..Len(c[s].subs) : c[s].subs[j].status = "pending"}} :
                            s \in {t \in Slots : c[t].op = "searchMultipleLogos"}})

\* a call table with F applied to every suspended lookup
MapLookups(c, F(_)) ==
    [s \in Slots |->
        IF c[s].op \in {"searchLogo", "searchLogoAlternative"}
        THEN [c[s] EXCEPT !.lk = F(@)]
        ELSE IF c[s].op = "searchMultipleLogos"
        THEN [c[s] EXCEPT !.subs = [i \in 1..Len(@) |->
                IF @[i].status = "pending" THEN [@[i] EXCEPT !.lk = F(@)] ELSE @[i]]]
        ELSE c[s]]

\* Set objects no map entry and no suspended lookup refers to are gone
Reachable(m, c) ==
    LET live == {m.failed[k] : k \in DOMAIN m.failed}
                \cup {lk.tfs : lk \in RunningLookups(c)}
    IN  [r \in DOMAIN m.sets \cap live |-> m.sets[r]]

\* bookkeeping set when a searchLogo starts
StartPrimary(lk) ==
    [lk EXCEPT !.prev = IF lk.key \in DOMAIN lastUrl THEN lastUrl[lk.key] ELSE <<>>,
               !.mustSkip = ghostFailed[lk.key]]

\* bookkeeping set when a searchLogoAlternative starts
StartAlternative(lk, chained) ==
    [lk EXCEPT !.chained = chained,
               !.overlap = \E o \in RunningLookups(calls) :
                               o.kind = "searchLogo" /\ o.key = lk.key]

\* a searchLogo for one of `keys` starts: the refreshes in flight overlap with it
MarkOverlap(c, keys) ==
    MapLookups(c, LAMBDA lk :
        IF lk.kind = "searchLogoAlternative" /\ lk.key \in keys
        THEN [lk EXCEPT !.overlap = TRUE] ELSE lk)

\* a searchLogoAlternative for `key` deletes the cache entry: suspended
\* searchLogo calls are no longer "consecutive" to the earlier return
ForgetPrev(c, key) ==
    MapLookups(c, LAMBDA lk :
        IF lk.kind = "searchLogo" /\ lk.key = key THEN [lk EXCEPT !.prev = <<>>] ELSE lk)

Completion(status, result, error, lk) ==
    [status |-> status, result |-> result, error |-> error, lk |-> lk]

OkPrimary(done) ==
    {i \in 1..Len(done) : done[i].lk.kind = "searchLogo" /\ done[i].status = "ok"}

\* the primed state after one step of code
Step(m, newCalls, act, done, batch, invalidated, validKeys, newChain, n) ==
    /\ started + n <= MaxLookups
    /\ InFlight(newCalls) <= MaxInFlight
    /\ started' = started + n
    /\ searchCache' = m.cache
    /\ usedSources' = m.used
    /\ failedSources' = m.failed
    /\ sets' = Reachable(m, newCalls)
    /\ epoch' = m.epoch
    /\ calls' = newCalls
    /\ event' = [act |-> act, done |-> done, batch |-> batch,
                 probed |-> m.probed, marked |-> m.marked]
    /\ lastUrl' =
        LET kept == [k \in DOMAIN lastUrl \ invalidated |-> lastUrl[k]]
            ret == {done[i].lk.key : i \in OkPrimary(done)}
        IN  [k \in DOMAIN kept \cup ret |->
                IF k \in ret
                THEN done[CHOOSE i \in OkPrimary(done) : done[i].lk.key = k].result.url
                ELSE kept[k]]
    /\ ghostFailed' = [k \in Keys |-> ghostFailed[k] \cup {p \in ProviderIds : <<k, p>> \in m.marked}]
    /\ everValid' = everValid \cup validKeys
    /\ chain' = newChain
    /\ UNCHANGED <<workAreaVars, evalVars, repoVars>>

\* nothing is being evaluated
NoInvocation == [fn |-> "none"]

NotReturned == [fn |-> "none"]

\* no message is shown
null == "null"

\* the module state of logoService.ts after import
InitService ==
    /\ searchCache = EmptyMap
    /\ usedSources = EmptyMap
    /\ failedSources = EmptyMap
    /\ sets = EmptyMap
    /\ epoch = 0
    /\ calls = [s \in Slots |-> Idle]
    /\ event = NoEvent
    /\ lastUrl = EmptyMap
    /\ ghostFailed = [k \in Keys |-> {}]
    /\ everValid = {}
    /\ chain = NoChain
    /\ started = 0

\* the WorkArea component after mounting
InitWorkArea ==
    /\ logos = <<>>
    /\ isLoading = FALSE
    /\ uiError = null
    /\ handlers = {}
    /\ userEvents = 0

InitEval ==
    /\ invocation = NoInvocation
    /\ returned = NotReturned

SaveSlots == 1..MaxSavesInFlight

NoSave == [pc |-> "idle"]

\* no saveLogoToInternalRepo call has ended in this step
NotSaved == [ended |-> FALSE, result |-> FALSE, hashMatch |-> FALSE,
             uploaded |-> FALSE, inserted |-> FALSE]

\* an empty logo_searches table and an empty bucket
InitRepository ==
    /\ logoSearches = <<>>
    /\ storageBucket = {}
    /\ uuids = 0
    /\ saves = [s \in SaveSlots |-> NoSave]
    /\ saveCalls = 0
    /\ saved = NotSaved

Init == InitService /\ InitWorkArea /\ InitEval /\ InitRepository

\* the tracked chain starts with the first Result a searchLogo returns and
\* grows with every Result a chained searchLogoAlternative returns
NextChain(done) ==
    IF chain = NoChain /\ OkPrimary(done) # {}
    THEN LET i == CHOOSE j \in OkPrimary(done) : \A l \in OkPrimary(done) : j <= l
         IN  [term |-> done[i].lk.term, source |-> done[i].result.source,
              urls |-> <<done[i].result.url>>]
    ELSE IF \E i \in 1..Len(done) : done[i].lk.chained /\ done[i].status = "ok"
    THEN LET i == CHOOSE j \in 1..Len(done) : done[j].lk.chained /\ done[j].status = "ok"
         IN  [chain EXCEPT !.source = done[i].result.source,
                           !.urls = Append(@, done[i].result.url)]
    ELSE chain

DoneOf(r, lk) ==
    IF r.status = "await" THEN <<>> ELSE <<Completion(r.status, r.result, r.error, lk)>>

\* ---------------------------------------------------------------- actions
\* a caller invokes searchLogo(term)
CallSearchLogo(term) ==
    /\ IdleSlots # {}
    /\ LET r == searchLogo(Machine, term)
           lk == StartPrimary(r.lk)
           c1 == MarkOverlap(calls, {lk.key})
           c2 == IF r.status = "await"
                 THEN [c1 EXCEPT ![FreeSlot] = [op |-> "searchLogo", lk |-> lk]]
                 ELSE c1
       IN  Step(r.m, c2, "CallSearchLogo", DoneOf(r, lk), NoBatch, {}, {},
                NextChain(DoneOf(r, lk)), 1)

\* a caller invokes searchLogoAlternative(term, currentUrl, currentProvider);
\* a chained call passes on what the previous call of the chain returned
CallSearchLogoAlternative(term, currentUrl, currentProvider, chained) ==
    /\ IdleSlots # {}
    /\ chained =>
        /\ chain # NoChain
        /\ Len(chain.urls) < MaxChain
        /\ term = chain.term
        /\ currentUrl = chain.urls[Len(chain.urls)]
        /\ currentProvider = chain.source
        /\ \A o \in RunningLookups(calls) : ~o.chained
    /\ LET r == searchLogoAlternative(Machine, term, currentUrl, currentProvider)
           lk == StartAlternative(r.lk, chained)
           c1 == ForgetPrev(calls, lk.key)
           c2 == IF r.status = "await"
                 THEN [c1 EXCEPT ![FreeSlot] = [op |-> "searchLogoAlternative", lk |-> lk]]
                 ELSE c1
       IN  Step(r.m, c2, "CallSearchLogoAlternative", DoneOf(r, lk), NoBatch,
                {lk.key}, {}, NextChain(DoneOf(r, lk)), 1)

\* the completions among the wrappers of a batch
SettledOf(subs) ==
    LET settled == SelectSeq(subs, LAMBDA x : x.status # "pending")
    IN  [i \in 1..Len(settled) |->
            Completion(IF settled[i].success THEN "ok" ELSE "err",
                       settled[i].logo, settled[i].error, settled[i].lk)]

\* a caller invokes searchMultipleLogos(terms)
CallSearchMultipleLogos(terms) ==
    /\ IdleSlots # {}
    /\ LET r == launch(Machine, terms, <<>>)
           subs == [i \in 1..Len(r.subs) |-> [r.subs[i] EXCEPT !.lk = StartPrimary(@)]]
           c1 == MarkOverlap(calls, {subs[i].lk.key : i \in 1..Len(subs)})
           c2 == IF AllSettled(subs) THEN c1
                 ELSE [c1 EXCEPT ![FreeSlot] =
                        [op |-> "searchMultipleLogos", terms |-> terms, subs |-> subs]]
           batch == IF AllSettled(subs) THEN batchOutcome(terms, subs) ELSE NoBatch
       IN  Step(r.m, c2, "CallSearchMultipleLogos", SettledOf(subs), batch, {}, {},
                NextChain(SettledOf(subs)), Len(terms))

\* the probe awaited by the searchLogo call in slot s is answered
ValidatorAnswersSearchLogo(s, valid) ==
    /\ calls[s].op = "searchLogo"
    /\ LET r == searchLogoResume(Machine, calls[s].lk, valid)
           c2 == [calls EXCEPT ![s] =
                    IF r.status = "await" THEN [@ EXCEPT !.lk = r.lk] ELSE Idle]
       IN  Step(r.m, c2, "ValidatorAnswersSearchLogo", DoneOf(r, r.lk), NoBatch, {},
                IF valid THEN {r.lk.key} ELSE {}, NextChain(DoneOf(r, r.lk)), 0)

\* the probe awaited by the searchLogoAlternative call in slot s is answered
ValidatorAnswersAlternative(s, valid, suffix) ==
    /\ calls[s].op = "searchLogoAlternative"
    /\ LET r == searchLogoAlternativeResume(Machine, calls[s].lk, valid, suffix)
           c2 == [calls EXCEPT ![s] =
                    IF r.status = "await" THEN [@ EXCEPT !.lk = r.lk] ELSE Idle]
       IN  Step(r.m, c2, "ValidatorAnswersAlternative", DoneOf(r, r.lk), NoBatch, {},
                IF valid THEN {r.lk.key} ELSE {}, NextChain(DoneOf(r, r.lk)), 0)

\* the probe awaited by the i-th searchLogo of the batch in slot s is answered;
\* when it was the last pending one, Promise.allSettled resolves and the batch ends
ValidatorAnswersBatch(s, i, valid) ==
    /\ calls[s].op = "searchMultipleLogos"
    /\ i \in 1..Len(calls[s].subs)
    /\ calls[s].subs[i].status = "pending"
    /\ LET r == searchLogoResume(Machine, calls[s].subs[i].lk, valid)
           subs == [calls[s].subs EXCEPT ![i] = settle(@.term, r)]
           c2 == [calls EXCEPT ![s] =
                    IF AllSettled(subs) THEN Idle ELSE [@ EXCEPT !.subs = subs]]
           batch == IF AllSettled(subs) THEN batchOutcome(calls[s].terms, subs) ELSE NoBatch
       IN  Step(r.m, c2, "ValidatorAnswersBatch", DoneOf(r, r.lk), batch, {},
                IF valid THEN {r.lk.key} ELSE {}, NextChain(DoneOf(r, r.lk)), 0)

\* the setInterval callback clearing the used sets as well
SweepClearsUsed ==
    /\ epoch < MaxSweeps
    /\ failedSources' = EmptyMap
    /\ usedSources' = EmptyMap
    /\ epoch' = epoch + 1
    /\ calls' = MapLookups(calls, LAMBDA lk : [lk EXCEPT !.mustSkip = {}, !.swept = TRUE])
    /\ sets' = Reachable([Machine EXCEPT !.failed = EmptyMap], calls)
    /\ ghostFailed' = [k \in Keys |-> {}]
    /\ event' = [NoEvent EXCEPT !.act = "Sweep"]
    /\ UNCHANGED <<searchCache, lastUrl, everValid, chain, started>>
    /\ UNCHANGED <<workAreaVars, evalVars, repoVars>>

\* the setInterval callback: failedSources.clear()
Sweep ==
    /\ epoch < MaxSweeps
    /\ failedSources' = EmptyMap
    /\ epoch' = epoch + 1
    /\ calls' = MapLookups(calls, LAMBDA lk : [lk EXCEPT !.mustSkip = {}, !.swept = TRUE])
    /\ sets' = Reachable([Machine EXCEPT !.failed = EmptyMap], calls)
    /\ ghostFailed' = [k \in Keys |-> {}]
    /\ event' = [NoEvent EXCEPT !.act = "Sweep"]
    /\ UNCHANGED <<searchCache, usedSources, lastUrl, everValid, chain, started>>
    /\ UNCHANGED <<workAreaVars, evalVars, repoVars>>

BatchInputs == UNION {[1..n -> Terms] : n \in 0..MaxBatch}

CurrentUrlInputs(term) ==
    UNION {{ProviderUrls(id, normalizeTerm(term))[i] :
                i \in 1..Len(ProviderUrls(id, normalizeTerm(term)))} : id \in ProviderIds}
    \cup {ForeignUrl}

\* the tracked grid entry is refreshed: searchLogoAlternative(logo.searchTerm, logo.url, logo.source)
Refresh ==
    /\ chain # NoChain
    /\ CallSearchLogoAlternative(chain.term, chain.urls[Len(chain.urls)], chain.source, TRUE)

Next ==
    \/ Refresh
    \/ \E terms \in BatchInputs : CallSearchMultipleLogos(terms)
    \/ \E s \in Slots : \E valid \in ValidatorAnswers : \E suffix \in RandomSuffixes :
            ValidatorAnswersAlternative(s, valid, suffix)
    \/ \E s \in Slots : \E i \in 1..MaxBatch : \E valid \in ValidatorAnswers :
            ValidatorAnswersBatch(s, i, valid)
    \/ Sweep

Spec == Init /\ [][Next]_vars

\* ------------------------------------------------ one call at a time, any arguments
AllIdle == IdleSlots = Slots

\* searchLogo called while nothing else is in flight
ApiSearchLogo(term) == AllIdle /\ CallSearchLogo(term)

\* searchLogoAlternative called with arbitrary arguments while nothing else is in flight
ApiSearchLogoAlternative(term, currentUrl, currentProvider) ==
    AllIdle /\ CallSearchLogoAlternative(term, currentUrl, currentProvider, FALSE)

\* calls that run one at a time never touch each other's key: one term is enough
ApiTerms == {<<" ", "A", "-">>}

NextApi ==
    \/ \E term \in ApiTerms : ApiSearchLogo(term)
    \/ \E term \in ApiTerms : \E currentUrl \in CurrentUrlInputs(term) :
         \E currentProvider \in ProviderIds \cup {Undefined} :
            ApiSearchLogoAlternative(term, currentUrl, currentProvider)
    \/ \E s \in Slots : \E valid \in ValidatorAnswers : ValidatorAnswersSearchLogo(s, valid)
    \/ \E s \in Slots : \E valid \in ValidatorAnswers : \E suffix \in RandomSuffixes :
            ValidatorAnswersAlternative(s, valid, suffix)
    \/ Sweep

SpecApi == Init /\ [][NextApi]_vars

\* ------------------------------------------- the pure functions, evaluated once
\* characters raw strings are made of: lower case, upper case, digit, blank, punctuation
RawAlphabet == {"a", "A", "1", Space, "-"}

\* raw strings handed to normalizeTerm
RawTerms == UNION {[1..n -> RawAlphabet] : n \in 0..MaxTermLen}

Invocations ==
    {[fn |-> "normalizeTerm", x |-> x, y |-> y] : x \in RawTerms, y \in RawTerms}
    \cup {[fn |-> "isValidSvgUrl", response |-> response] : response \in Responses}

\* a function is about to be called on some input
InitEvaluation ==
    /\ InitService
    /\ InitWorkArea
    /\ InitRepository
    /\ invocation \in Invocations
    /\ returned = NotReturned

\* normalizeTerm is applied to two raw strings, and to its own result
EvalNormalizeTerm ==
    /\ invocation.fn = "normalizeTerm"
    /\ returned = NotReturned
    /\ returned' = [fn |-> "normalizeTerm",
                    x |-> normalizeTerm(invocation.x),
                    y |-> normalizeTerm(invocation.y),
                    xx |-> normalizeTerm(normalizeTerm(invocation.x))]
    /\ UNCHANGED <<serviceVars, workAreaVars, repoVars, invocation>>

\* isValidSvgUrl is applied to a URL whose request comes to invocation.response
EvalIsValidSvgUrl ==
    /\ invocation.fn = "isValidSvgUrl"
    /\ returned = NotReturned
    /\ returned' = [fn |-> "isValidSvgUrl", value |-> isValidSvgUrl(invocation.response)]
    /\ UNCHANGED <<serviceVars, workAreaVars, repoVars, invocation>>

NextEvaluation == EvalNormalizeTerm \/ EvalIsValidSvgUrl

SpecEvaluation == InitEvaluation /\ [][NextEvaluation]_vars

\* ------------------------------------------------------------- WorkArea
\* const MAX_LOGOS = 15
MAX_LOGOS == 15

\* the parts of the search box text between commas
SearchSegments == Terms \cup {<<Space>>}

SearchInputs == UNION {[1..n -> SearchSegments] : n \in 0..MaxBatch}

\* searchInput.split(',').map(term => term.trim()).filter(Boolean)
searchTerms(searchInput) ==
    SelectSeq([i \in 1..Len(searchInput) |-> trim(searchInput[i])], LAMBDA t : t # <<>>)

\* file.type of the files of a FileList
FileTypes == {<<"image/", "svg", "+xml">>, <<"image/png">>}

FileLists == UNION {[1..n -> FileTypes] : n \in 0..MaxFiles}

\* setError(`Maximum of ${MAX_LOGOS} logos allowed`)
MaxLogosError == <<"Maximum of ", "15", " logos allowed">>

\* errors.push(`Cannot add more than ${maxFiles} files`)
TooManyFilesError == <<"Cannot add more than ", "15", " files">>

\* errors.push(`${file.name} is not an SVG file`)
NotSvgError == <<"${file.name}", " is not an SVG file">>

\* setError('No alternative logo found')
NoAlternativeLogoError == <<"No alternative logo found">>

\* processUploadedFiles(files, maxFiles, currentCount): the files that were
\* taken (one object URL each) and the error messages
processUploadedFiles(files, maxFiles, currentCount) ==
    IF currentCount + Len(files) > maxFiles
    THEN [processedFiles |-> <<>>, errors |-> <<TooManyFilesError>>]
    ELSE [processedFiles |->
            SelectSeq(files, LAMBDA type : includes(type, <<"svg">>)),
          errors |->
            LET rejected == SelectSeq(files, LAMBDA type : ~includes(type, <<"svg">>))
            IN  [i \in 1..Len(rejected) |-> NotSvgError]]

\* a grid entry made by processFiles: id `upload-${random}`, source 'upload',
\* no searchTerm.  lookupTerm is bookkeeping: the term whose lookup produced
\* the entry's Result
uploadedLogo(suffix) ==
    [id |-> <<"upload-", suffix>>, url |-> ForeignUrl, source |-> "upload",
     sourceProvider |-> "User Upload", searchTerm |-> <<>>, isRefreshing |-> FALSE,
     lookupTerm |-> <<>>]

\* { ...logo, needsDimensions: true, searchTerm } for a Result of the service
gridLogo(logo, searchTerm, lookupTerm) ==
    [id |-> logo.id, url |-> logo.url, source |-> logo.source,
     sourceProvider |-> logo.sourceProvider, searchTerm |-> searchTerm,
     isRefreshing |-> FALSE, lookupTerm |-> lookupTerm]

\* result.successes.map((logo, index) => ({ ...logo, needsDimensions: true,
\* searchTerm: terms[index] })); lookupTerms[i] is the term successes[i] was found for
handleSearchEntries(terms, successes, lookupTerms) ==
    [index \in 1..Len(successes) |->
        gridLogo(successes[index], terms[index], lookupTerms[index])]

\* the grid after n files were uploaded one by one in an earlier session of use
UploadedGrid(n) == [i \in 1..n |-> uploadedLogo(ToString(i))]

\* grids the runs start from: empty, and MaxFiles short of the cap
InitialGrids == {UploadedGrid(0), UploadedGrid(MAX_LOGOS - MaxFiles)}

InitWorkAreaInUse ==
    /\ InitService
    /\ InitEval
    /\ InitRepository
    /\ logos \in InitialGrids
    /\ isLoading = FALSE
    /\ uiError = null
    /\ handlers = {}
    /\ userEvents = 0

\* a user event is handled; what the handler leaves alone stays
UserEvent ==
    /\ userEvents < MaxUserEvents
    /\ userEvents' = userEvents + 1
    /\ UNCHANGED <<serviceVars, evalVars, repoVars>>

\* a suspended handler resumes
Resume(h) ==
    /\ h \in handlers
    /\ handlers' = handlers \ {h}
    /\ UNCHANGED <<userEvents, serviceVars, evalVars, repoVars>>

\* handleSearch up to `await searchMultipleLogos(terms)`; the search box and
\* the button are disabled while isLoading
handleSearch(searchInput) ==
    /\ ~isLoading
    /\ UserEvent
    /\ LET terms == searchTerms(searchInput)
       IN  IF Len(terms) = 0
           THEN UNCHANGED <<logos, isLoading, uiError, handlers>>
           ELSE IF Len(logos) + Len(terms) > MAX_LOGOS
           THEN /\ uiError' = MaxLogosError
                /\ UNCHANGED <<logos, isLoading, handlers>>
           ELSE /\ isLoading' = TRUE
                /\ uiError' = null
                /\ handlers' = handlers \cup
                        {[op |-> "handleSearch", terms |-> terms, n |-> userEvents]}
                /\ UNCHANGED logos

\* what one searchLogo of the batch comes to: a Result of some provider's
\* first generator, or the not-found error
SearchLogoOutcomes == ProviderIds \cup {"not found"}

searchLogoOutcome(term, outcome) ==
    LET lk == NewLookup("searchLogo", term, <<>>, Undefined, LocalSet, <<>>)
    IN  IF outcome = "not found"
        THEN Throw(Machine, lk, NotFoundError(term))
        ELSE Return(Machine, lk,
                PrimaryResult(outcome, lk.key, Head(ProviderUrls(outcome, lk.key))))

\* handleSearch resumed when searchMultipleLogos has returned or thrown
handleSearchResume(h, outcomes) ==
    /\ h.op = "handleSearch"
    /\ Resume(h)
    /\ LET results == [i \in 1..Len(h.terms) |->
                        settle(h.terms[i], searchLogoOutcome(h.terms[i], outcomes[i]))]
           result == batchOutcome(h.terms, results)
           succeeded == SelectSeq(results, LAMBDA x : x.success)
           lookupTerms == [i \in 1..Len(succeeded) |-> succeeded[i].term]
       IN  IF result.ok
           THEN /\ logos' = logos \o handleSearchEntries(h.terms, result.successes, lookupTerms)
                /\ UNCHANGED uiError
           ELSE /\ uiError' = result.error
                /\ UNCHANGED logos
    /\ isLoading' = FALSE

\* processFiles up to `await processUploadedFiles(files, MAX_LOGOS, logos.length)`
processFiles(files) ==
    IF Len(files) = 0
    THEN UNCHANGED <<logos, isLoading, uiError, handlers>>
    ELSE /\ isLoading' = TRUE
         /\ uiError' = null
         /\ handlers' = handlers \cup
                {[op |-> "processFiles", files |-> files, currentCount |-> Len(logos),
                  n |-> userEvents]}
         /\ UNCHANGED logos

\* the file input's onChange; the input and its button are disabled while isLoading
handleFileUpload(files) ==
    /\ ~isLoading
    /\ UserEvent
    /\ processFiles(files)

\* the drop zone's onDrop; the drop zone is never disabled
handleDrop(files) ==
    /\ UserEvent
    /\ processFiles(files)

\* processFiles resumed when processUploadedFiles has returned
processFilesResume(h, suffixes) ==
    /\ h.op = "processFiles"
    /\ Resume(h)
    /\ LET r == processUploadedFiles(h.files, MAX_LOGOS, h.currentCount)
           newLogos == [i \in 1..Len(r.processedFiles) |-> uploadedLogo(suffixes[i])]
       IN  /\ uiError' = IF Len(r.errors) > 0 THEN r.errors[1] ELSE uiError
           /\ logos' = IF Len(r.processedFiles) > 0 THEN logos \o newLogos ELSE logos
    /\ isLoading' = FALSE

\* handleRefresh up to `await searchLogoAlternative(...)`; the button is
\* disabled for an entry that is refreshing or has no searchTerm
handleRefresh(index) ==
    /\ index \in 1..Len(logos)
    /\ ~logos[index].isRefreshing
    /\ logos[index].searchTerm # <<>>
    /\ UserEvent
    /\ logos' = [logos EXCEPT ![index].isRefreshing = TRUE]
    /\ handlers' = handlers \cup
            {[op |-> "handleRefresh", logo |-> logos[index], index |-> index,
              n |-> userEvents]}
    /\ UNCHANGED <<isLoading, uiError>>

\* what searchLogoAlternative(term, currentUrl, currentProvider) can come to:
\* a Result for some provider's URL other than currentUrl, or its error
AlternativeOutcomes(logo) ==
    {[ok |-> FALSE, logo |-> NoResult]}
    \cup UNION {{[ok |-> TRUE,
                  logo |-> AlternativeResult(p, normalizeTerm(logo.searchTerm), url, suffix)] :
                    suffix \in RandomSuffixes,
                    url \in UrlsOfProvider(p, normalizeTerm(logo.searchTerm)) \ {logo.url}} :
                 p \in ProviderIds}

\* handleRefresh resumed when searchLogoAlternative has returned or thrown
handleRefreshResume(h, outcome) ==
    /\ h.op = "handleRefresh"
    /\ Resume(h)
    /\ outcome \in AlternativeOutcomes(h.logo)
    /\ IF outcome.ok
       THEN /\ logos' = [i \in 1..Len(logos) |->
                            IF i = h.index
                            THEN gridLogo(outcome.logo, h.logo.searchTerm, h.logo.searchTerm)
                            ELSE logos[i]]
            /\ UNCHANGED uiError
       ELSE /\ logos' = [i \in 1..Len(logos) |->
                            IF i = h.index THEN [logos[i] EXCEPT !.isRefreshing = FALSE]
                            ELSE logos[i]]
            /\ uiError' = NoAlternativeLogoError
    /\ UNCHANGED isLoading

\* handleDelete(logo.id, index) of the entry shown at index
handleDelete(index) ==
    /\ index \in 1..Len(logos)
    /\ UserEvent
    /\ logos' = SelectSeq(logos, LAMBDA logo : logo.id # logos[index].id)
    /\ uiError' = null
    /\ UNCHANGED <<isLoading, handlers>>

\* handleClearAll; its button is disabled while isLoading or the grid is empty
handleClearAll ==
    /\ ~isLoading
    /\ Len(logos) # 0
    /\ UserEvent
    /\ logos' = <<>>
    /\ uiError' = null
    /\ UNCHANGED <<isLoading, handlers>>

\* the handlers of one kind that are suspended
Suspended(op) == {h \in handlers : h.op = op}

\* grid positions a user can act on
GridIndexes == 1..(MAX_LOGOS + MaxUserEvents * MaxBatch)

NextWorkArea ==
    \/ \E searchInput \in SearchInputs : handleSearch(searchInput)
    \/ \E h \in Suspended("handleSearch") :
         \E outcomes \in [1..MaxBatch -> SearchLogoOutcomes] :
            handleSearchResume(h, outcomes)
    \/ \E files \in FileLists : handleFileUpload(files)
    \/ \E files \in FileLists : handleDrop(files)
    \/ \E h \in Suspended("processFiles") :
         \E suffixes \in [1..MaxFiles -> RandomSuffixes] :
            processFilesResume(h, suffixes)
    \/ \E index \in GridIndexes : handleRefresh(index)
    \/ \E h \in Suspended("handleRefresh") :
         \E outcome \in AlternativeOutcomes(h.logo) :
            handleRefreshResume(h, outcome)
    \/ \E index \in GridIndexes : handleDelete(index)
    \/ handleClearAll

SpecWorkArea == InitWorkAreaInUse /\ [][NextWorkArea]_vars

\* -------------------------------------------------- internal repository
\* svgContent.replace(/>\s+</g, '><'): the characters that stay are those not
\* in a run of whitespace that has '>' right before it and '<' right after it
betweenTags(s, i) ==
    /\ s[i] = Space
    /\ \E l \in 1..(i - 1) : \E r \in (i + 1)..Len(s) :
          /\ s[l] = ">"
          /\ s[r] = "<"
          /\ \A k \in (l + 1)..(r - 1) : s[k] = Space

RECURSIVE removeBetweenTags(_, _)
removeBetweenTags(s, i) ==
    IF i > Len(s) THEN <<>>
    ELSE (IF betweenTags(s, i) THEN <<>> ELSE <<s[i]>>) \o removeBetweenTags(s, i + 1)

\* normalizeSvgContent: whitespace between tags removed, trimmed, lower-cased
normalizeSvgContent(svgContent) == toLowerCase(trim(removeBetweenTags(svgContent, 1)))

\* SHA256(...).toString(encHex): the digest stands for the text it was made of
SHA256(text) == <<"sha256">> \o text

\* generateContentHash
generateContentHash(svgContent) == SHA256(normalizeSvgContent(svgContent))

\* the markup handed to saveLogoToInternalRepo: two documents that differ only
\* in whitespace between tags, at the ends, and in letter case, and a third one
SvgContents ==
    { <<"<", "a", ">", "<", "b", ">">>,
      <<Space, "<", "A", ">", Space, "<", "b", ">">>,
      <<"<", "b", ">">> }

\* the `source` of the logo handed to saveLogoToInternalRepo
SaveSources == {"simpleIcons"}

\* term.toLowerCase().trim() of saveLogoToInternalRepo
repoTerm(term) == trim(toLowerCase(term))

\* the rows with logo_found = true that a select with .eq(column, value) returns
selectFound(column, value) ==
    {i \in 1..Len(logoSearches) :
        logoSearches[i][column] = value /\ logoSearches[i].logo_found}

\* the row saveLogoToInternalRepo inserts (created_at and visual_signature,
\* which no select filters on, are left out)
logoRow(id, c) ==
    [id |-> id, search_term |-> c.normalizedTerm, file_name |-> c.fileName,
     source |-> c.source, logo_found |-> TRUE, object_url |-> <<"public/">> \o c.fileName,
     content_hash |-> generateContentHash(c.svgContent)]

\* saveLogoToInternalRepo returns `result`
saveReturns(s, result, hashMatch, uploaded, inserted) ==
    /\ saves' = [saves EXCEPT ![s] = NoSave]
    /\ saved' = [ended |-> TRUE, result |-> result, hashMatch |-> hashMatch,
                 uploaded |-> uploaded, inserted |-> inserted]

\* logoExistsInRepository has answered false: the file name is made and the
\* upload is sent
saveUploads(s) ==
    /\ saves' = [saves EXCEPT ![s] =
                    [@ EXCEPT !.pc = "upload",
                              !.fileName = @ \o <<"-", ToString(uuids + 1), ".svg">>]]
    /\ uuids' = uuids + 1
    /\ saved' = NotSaved

\* a caller invokes saveLogoToInternalRepo(term, logo, svgContent); the call
\* runs into logoExistsInRepository and suspends in the content_hash select
CallSaveLogoToInternalRepo(term, source, svgContent) ==
    /\ saveCalls < MaxSaves
    /\ saveCalls' = saveCalls + 1
    /\ \E s \in SaveSlots :
          /\ saves[s] = NoSave
          /\ \A t \in SaveSlots : t < s => saves[t] # NoSave
          /\ saves' = [saves EXCEPT ![s] =
                [pc |-> "hashMatches", normalizedTerm |-> repoTerm(term),
                 source |-> source, svgContent |-> svgContent,
                 fileName |-> repoTerm(term), id |-> 0]]
    /\ saved' = NotSaved
    /\ UNCHANGED <<logoSearches, storageBucket, uuids>>
    /\ UNCHANGED <<serviceVars, workAreaVars, evalVars>>

\* the content_hash select of logoExistsInRepository is answered
HashMatchesAnswered(s, hashError) ==
    /\ saves[s].pc = "hashMatches"
    /\ LET hashMatches == selectFound("content_hash", generateContentHash(saves[s].svgContent))
       IN  IF hashError
           THEN saveUploads(s)
           ELSE IF hashMatches # {}
           THEN saveReturns(s, FALSE, TRUE, FALSE, FALSE) /\ UNCHANGED uuids
           ELSE /\ saves' = [saves EXCEPT ![s].pc = "termMatches"]
                /\ saved' = NotSaved
                /\ UNCHANGED uuids
    /\ UNCHANGED <<logoSearches, storageBucket, saveCalls>>
    /\ UNCHANGED <<serviceVars, workAreaVars, evalVars>>

\* the search_term select of logoExistsInRepository is answered; `similar` is
\* what areVisualSignaturesSimilar makes of the stored signatures
TermMatchesAnswered(s, termError, similar) ==
    /\ saves[s].pc = "termMatches"
    /\ LET termMatches == selectFound("search_term", saves[s].normalizedTerm)
       IN  IF ~termError /\ termMatches # {} /\ similar
           THEN saveReturns(s, FALSE, FALSE, FALSE, FALSE) /\ UNCHANGED uuids
           ELSE saveUploads(s)
    /\ UNCHANGED <<logoSearches, storageBucket, saveCalls>>
    /\ UNCHANGED <<serviceVars, workAreaVars, evalVars>>

\* the storage upload is answered, the public URL is asked for, and the
\* insert into logo_searches is sent
UploadAnswered(s, uploadError, publicUrl) ==
    /\ saves[s].pc = "upload"
    /\ IF uploadError
       THEN /\ saveReturns(s, FALSE, FALSE, FALSE, FALSE)
            /\ UNCHANGED <<storageBucket, uuids>>
       ELSE /\ storageBucket' = storageBucket \cup {saves[s].fileName}
            /\ IF ~publicUrl
               THEN saveReturns(s, FALSE, FALSE, TRUE, FALSE) /\ UNCHANGED uuids
               ELSE /\ saves' = [saves EXCEPT ![s] =
                                    [@ EXCEPT !.pc = "insert", !.id = uuids + 1]]
                    /\ uuids' = uuids + 1
                    /\ saved' = NotSaved
    /\ UNCHANGED <<logoSearches, saveCalls>>
    /\ UNCHANGED <<serviceVars, workAreaVars, evalVars>>

\* the insert is answered
InsertAnswered(s, insertError) ==
    /\ saves[s].pc = "insert"
    /\ IF insertError
       THEN /\ saveReturns(s, FALSE, FALSE, TRUE, FALSE)
            /\ UNCHANGED logoSearches
       ELSE /\ logoSearches' = Append(logoSearches, logoRow(saves[s].id, saves[s]))
            /\ saveReturns(s, TRUE, FALSE, TRUE, TRUE)
    /\ UNCHANGED <<storageBucket, uuids, saveCalls>>
    /\ UNCHANGED <<serviceVars, workAreaVars, evalVars>>

NextRepository ==
    \/ \E term \in Terms : \E source \in SaveSources : \E svgContent \in SvgContents :
            CallSaveLogoToInternalRepo(term, source, svgContent)
    \/ \E s \in SaveSlots : \E hashError \in BOOLEAN : HashMatchesAnswered(s, hashError)
    \/ \E s \in SaveSlots : \E termError \in BOOLEAN : \E similar \in BOOLEAN :
            TermMatchesAnswered(s, termError, similar)
    \/ \E s \in SaveSlots : \E uploadError \in BOOLEAN : \E publicUrl \in BOOLEAN :
            UploadAnswered(s, uploadError, publicUrl)
    \/ \E s \in SaveSlots : \E insertError \in BOOLEAN : InsertAnswered(s, insertError)

SpecRepository == Init /\ [][NextRepository]_vars

\* ------------------------------------------------------------ properties
Done == {event.done[i] : i \in 1..Len(event.done)}

AlternativeDone == {d \in Done : d.lk.kind = "searchLogoAlternative"}

PrimaryDone == {d \in Done : d.lk.kind = "searchLogo"}

\* C1: a searchLogoAlternative call that returns a Result returns one whose
\* url differs from the currentUrl it was given, whatever the term, the
\* current url, the current provider and the ledger and cache are.
C1_AlternativeUrlDiffersFromCurrent ==
    \A d \in AlternativeDone : d.status = "ok" => d.result.url # d.lk.currentUrl

\* C1 witness: a refresh won by the current provider itself, whose URL list
\* contained the current url
C1_Witness ==
    \E d \in AlternativeDone :
        /\ d.status = "ok"
        /\ d.result.source = d.lk.currentProvider
        /\ \E i \in 1..Len(ProviderUrls(d.result.source, d.lk.key)) :
                ProviderUrls(d.result.source, d.lk.key)[i] = d.lk.currentUrl

\* C2: a searchLogo that starts after an earlier searchLogo of the same key
\* has returned a Result, with no searchLogoAlternative of that key since,
\* returns a Result with the same url and asks the validator nothing.
C2_ResolveCacheIdempotent ==
    \A d \in PrimaryDone :
        d.lk.prev # <<>> =>
            /\ d.status = "ok"
            /\ d.result.url = d.lk.prev
            /\ d.lk.trail = <<>>

\* C2 witness: a second searchLogo of a key returns
C2_Witness == \E d \in PrimaryDone : d.lk.prev # <<>> /\ d.status = "ok"

\* C3: once a provider's generators have all been found invalid for a term
\* during a lookup, the provider is in the failed set that failedSources holds
\* for the key, and a searchLogo of that key that starts later, before the next
\* sweep, sends no probe to that provider.
C3_FailedSourceRecordedAndSkipped ==
    /\ \A mk \in event.marked :
            /\ mk[1] \in DOMAIN failedSources
            /\ mk[2] \in sets[failedSources[mk[1]]]
    /\ \A lk \in RunningLookups(calls) :
            lk.kind = "searchLogo" => Head(lk.provs) \notin lk.mustSkip

\* C4: after a searchLogo that returns a Result, from the registry walk or
\* from the cache, the used set of the key holds the Result's source.
C4_UsedHoldsReturnedSource ==
    \A d \in PrimaryDone :
        d.status = "ok" =>
            /\ d.lk.key \in DOMAIN usedSources
            /\ d.result.source \in usedSources[d.lk.key]

\* C4 witness: a searchLogo answered from the cache
C4_Witness == \E d \in PrimaryDone : d.status = "ok" /\ d.lk.trail = <<>>

\* C5: searchMultipleLogos([]) returns { successes: [], failures: [] } and
\* does not throw.
C5_EmptyBatchReturnsEmpty ==
    (event.batch.settled /\ event.batch.terms = <<>>) =>
        /\ event.batch.ok
        /\ event.batch.successes = <<>>
        /\ event.batch.failures = <<>>

\* the positions of a batch whose searchLogo failed / succeeded
FailedAt(b) == {i \in 1..Len(b.results) : ~b.results[i].success}

SucceededAt(b) == {i \in 1..Len(b.results) : b.results[i].success}

Occurrences(seq, x) == Cardinality({i \in 1..Len(seq) : seq[i] = x})

\* C6: for a non-empty term list, when every searchLogo fails the batch throws
\* "No logos found"; when some succeed and some fail it returns non-empty
\* successes, and failures holds exactly the failed terms as the caller wrote them.
C6_BatchFailureReporting ==
    LET b == event.batch
    IN  (b.settled /\ b.terms # <<>>) =>
            /\ SucceededAt(b) = {} =>
                    /\ ~b.ok
                    /\ b.error = <<"No logos found. Try different search terms.">>
            /\ (SucceededAt(b) # {} /\ FailedAt(b) # {}) =>
                    /\ b.ok
                    /\ b.successes # <<>>
                    /\ b.failures # <<>>
                    /\ \A t \in Terms \cup Keys :
                        Occurrences(b.failures, t)
                            = Cardinality({i \in FailedAt(b) : b.terms[i] = t})
                    /\ \A i \in 1..Len(b.failures) : b.failures[i] \in Terms

\* C6 witness: a mixed batch whose failed term is not its own normalized key
C6_Witness ==
    /\ event.batch.settled
    /\ event.batch.ok
    /\ \E i \in 1..Len(event.batch.failures) :
            event.batch.failures[i] # normalizeTerm(event.batch.failures[i])

\* C7: searchMultipleLogos starts one searchLogo per term, ends only when all
\* of them have settled, and whenever it returns every term is in exactly one
\* of the two lists: |successes| + |failures| = |terms|.
C7_BatchAccountsForEveryTerm ==
    LET b == event.batch
    IN  b.settled =>
            /\ Len(b.results) = Len(b.terms)
            /\ \A i \in 1..Len(b.terms) :
                    b.results[i].term = b.terms[i] /\ b.results[i].status # "pending"
            /\ b.ok => Len(b.successes) + Len(b.failures) = Len(b.terms)

\* C7 witness: a batch of two returns although one of its lookups failed
C7_Witness ==
    /\ event.batch.settled
    /\ event.batch.ok
    /\ Len(event.batch.terms) = 2
    /\ Len(event.batch.failures) = 1

\* C8: when the validator has accepted no URL of any provider for a term's
\* key, searchLogo fails with the not-found error that names the term as the
\* caller wrote it, and the cache has no entry for the key afterwards.
C8_NotFoundNamesTermAndCachesNothing ==
    \A d \in PrimaryDone :
        d.lk.key \notin everValid =>
            /\ d.status = "err"
            /\ d.error = <<"No SVG logo found for: ">> \o d.lk.term
            /\ d.lk.key \notin DOMAIN searchCache

\* C8 witness: a searchLogo of a term that is not its own key fails after the
\* validator has rejected every generator of every provider
C8_Witness ==
    \E d \in PrimaryDone :
        /\ d.status = "err"
        /\ d.lk.key \notin everValid
        /\ d.lk.term # d.lk.key
        /\ Len(d.lk.trail) = Cardinality(
                UNION {{<<id, i>> : i \in 1..Len(Provider(id).urls)} : id \in ProviderIds})

\* C9 as stated: in a chain searchLogo, searchLogoAlternative, ... where each
\* refresh is given the url and source the previous call returned, no url is
\* returned twice.
C9_ChainNeverRepeats ==
    \A i, j \in 1..Len(chain.urls) : i # j => chain.urls[i] # chain.urls[j]

\* C9 as amended: in such a chain every returned url differs from the url
\* returned by the call right before it.
C9_ChainDiffersFromPrevious ==
    \A i \in 1..(Len(chain.urls) - 1) : chain.urls[i] # chain.urls[i + 1]

\* C9 witness: a chain of two refreshes whose second one won with the same
\* provider as the searchLogo that started the chain
C9_Witness ==
    /\ Len(chain.urls) = 3
    /\ \E id \in ProviderIds : \E i, j \in 1..Len(ProviderUrls(id, normalizeTerm(chain.term))) :
            /\ chain.urls[1] = ProviderUrls(id, normalizeTerm(chain.term))[i]
            /\ chain.urls[3] = ProviderUrls(id, normalizeTerm(chain.term))[j]

\* C10: searchLogoAlternative deletes the cache entry of the key first and
\* never writes the cache: while it runs and when it ends (Result or error),
\* if no searchLogo of the same key was in flight at any time during the
\* call, the cache has no entry for the key.
C10_AlternativeLeavesNoCacheEntry ==
    /\ \A d \in AlternativeDone : ~d.lk.overlap => d.lk.key \notin DOMAIN searchCache
    /\ \A lk \in RunningLookups(calls) :
            (lk.kind = "searchLogoAlternative" /\ ~lk.overlap) =>
                lk.key \notin DOMAIN searchCache

\* C10 witness: a refresh of an entry that searchLogo had cached returns a
\* Result with no searchLogo of the key in flight meanwhile
C10_Witness ==
    \E d \in AlternativeDone :
        /\ d.status = "ok"
        /\ ~d.lk.overlap
        /\ d.lk.chained
        /\ d.lk.key \notin DOMAIN searchCache

\* C11: a searchLogoAlternative that has run out of candidates fails with the
\* "No alternative SVG logo found for: <term>" error and never with the
\* not-found error of searchLogo; a searchLogo fails only with
\* "No SVG logo found for: <term>" and never with the no-alternative error;
\* the two errors are different values.
C11_FailuresAreDistinguishable ==
    /\ \A d \in AlternativeDone : d.status = "err" =>
          /\ d.error = <<"No alternative SVG logo found for: ">> \o d.lk.term
          /\ d.error # <<"No SVG logo found for: ">> \o d.lk.term
          /\ d.lk.provs = <<>>
    /\ \A d \in PrimaryDone : d.status = "err" =>
          /\ d.error = <<"No SVG logo found for: ">> \o d.lk.term
          /\ d.error # <<"No alternative SVG logo found for: ">> \o d.lk.term

\* an alternative lookup has probed candidates, found none valid and failed
C11_Witness ==
    \E d \in AlternativeDone :
        d.status = "err" /\ d.lk.trail # <<>> /\ d.lk.provs = <<>>

\* C12: a Result's id is unique per produced instance: two Results produced
\* by distinct lookup executions have different ids, also for two searchLogo
\* executions of one searchMultipleLogos call whose terms normalize to the
\* same key (both executions walked the registry, neither was a cache hit).
C12_ResultIdsUnique ==
    \A i, j \in 1..Len(event.batch.results) :
        ( /\ i < j
          /\ event.batch.results[i].success
          /\ event.batch.results[j].success
          /\ event.batch.results[i].lk.trail # <<>>
          /\ event.batch.results[j].lk.trail # <<>> )
        => event.batch.results[i].logo.id # event.batch.results[j].logo.id

\* the candidate URLs of a key in the order of a full registry walk
WalkOrder(key) ==
    LET RECURSIVE Walk(_)
        Walk(provs) == IF provs = <<>> THEN <<>>
                       ELSE ProviderUrls(Head(provs), key) \o Walk(Tail(provs))
    IN  Walk(ProviderIdSeq)

\* the position of a URL in the walk order of its key
WalkIndex(key, url) == CHOOSE i \in 1..Len(WalkOrder(key)) : WalkOrder(key)[i] = url

\* the failed set failedSources holds for a key (empty when it holds none)
LedgerFailed(key) ==
    IF key \in DOMAIN failedSources THEN sets[failedSources[key]] ELSE {}

\* C17: on a cache miss searchLogo walks the registry in its fixed order and
\* each provider's generators in order, sends no probe to a provider that is
\* in the failed set failedSources holds for the key when the walk reaches
\* it, returns the first candidate the validator accepts, sends no probe
\* after that, records the provider in the used set and caches the Result.
C17_PrimaryWalkOrder ==
    /\ \A lk \in RunningLookups(calls) :
          lk.kind = "searchLogo" =>
            /\ \A i, j \in 1..Len(lk.trail) :
                  i < j => WalkIndex(lk.key, lk.trail[i]) < WalkIndex(lk.key, lk.trail[j])
            /\ ( Head(lk.urls) \in event.probed
                 /\ lk.urls = ProviderUrls(Head(lk.provs), lk.key) )
               => Head(lk.provs) \notin LedgerFailed(lk.key)
    /\ \A d \in PrimaryDone :
          (d.status = "ok" /\ d.lk.trail # <<>>) =>
            /\ d.result.url = d.lk.trail[Len(d.lk.trail)]
            /\ d.result.url \in
                 {ProviderUrls(d.result.source, d.lk.key)[g] :
                     g \in 1..Len(ProviderUrls(d.result.source, d.lk.key))}
            /\ \A i, j \in 1..Len(d.lk.trail) :
                  i < j => WalkIndex(d.lk.key, d.lk.trail[i]) < WalkIndex(d.lk.key, d.lk.trail[j])
            /\ d.result.source \in usedSources[d.lk.key]
            /\ d.lk.key \in DOMAIN searchCache

\* what the cache, the used sets and the failed sets hold for one key
CacheOf(key) == IF key \in DOMAIN searchCache THEN <<searchCache[key]>> ELSE <<>>

UsedOf(key) == IF key \in DOMAIN usedSources THEN <<usedSources[key]>> ELSE <<>>

FailedOf(key) == IF key \in DOMAIN failedSources THEN <<sets[failedSources[key]]>> ELSE <<>>

\* the candidate URLs of a key
UrlsOf(key) == {WalkOrder(key)[i] : i \in 1..Len(WalkOrder(key))}

\* C18: a searchLogo that finds its key in the cache returns the cached Result
\* at once: it sends no probe, and what the cache, the used sets and the
\* failed sets hold for the key is the same after the call as before it.
C18_CacheHitChangesNothing ==
    [][\A i \in 1..Len(event'.done) : \A key \in Keys :
          ( /\ event'.act \in {"CallSearchLogo", "CallSearchMultipleLogos"}
            /\ event'.done[i].status = "ok"
            /\ event'.done[i].lk.key = key )
          => /\ event'.done[i].lk.trail = <<>>
             /\ CacheOf(key) = <<event'.done[i].result>>
             /\ CacheOf(key)' = CacheOf(key)
             /\ UsedOf(key)' = UsedOf(key)
             /\ FailedOf(key)' = FailedOf(key)
             /\ event'.probed \cap UrlsOf(key) = {}]_vars

\* a searchLogo of a batch was answered from the cache after a sweep had
\* emptied failedSources, while another term of the batch missed the cache
C18_Witness ==
    /\ event.act = "CallSearchMultipleLogos"
    /\ epoch > 0
    /\ \E i \in 1..Len(event.done) :
          /\ event.done[i].status = "ok"
          /\ event.done[i].lk.key \notin DOMAIN failedSources
    /\ event.probed # {}

\* C20: the used set of a key only grows: no step removes a key from
\* usedSources or a provider from a key's used set, and a searchLogoAlternative
\* that returns has added the returned source to the set.
C20_UsedSetOnlyGrows ==
    [][/\ \A key \in DOMAIN usedSources :
            /\ key \in DOMAIN usedSources'
            /\ usedSources[key] \subseteq usedSources'[key]
       /\ \A i \in 1..Len(event'.done) :
            ( /\ event'.done[i].lk.kind = "searchLogoAlternative"
              /\ event'.done[i].status = "ok" )
            => /\ event'.done[i].lk.key \in DOMAIN usedSources'
               /\ event'.done[i].result.source \in usedSources'[event'.done[i].lk.key]]_vars

\* a searchLogoAlternative has returned a source other than the current one
\* and the used set of the key now holds both
C20_Witness ==
    \E d \in AlternativeDone :
        /\ d.status = "ok"
        /\ d.result.source # d.lk.currentProvider
        /\ {d.result.source, d.lk.currentProvider} \subseteq usedSources[d.lk.key]

\* the used set usedSources holds for a key (empty when it holds none)
LedgerUsed(key) == IF key \in DOMAIN usedSources THEN usedSources[key] ELSE {}

\* C19: searchLogoAlternative tries the providers in the order (a) never used
\* and not failed, in registry order, (b) used before, not the current one,
\* not failed, (c) the current one if not failed; the current provider is
\* tried only after every other provider that is not failed.  Stated of the
\* provider list a call has just built, before any probe is answered.
C19_CurrentProviderIsLastResort ==
    \A lk \in RunningLookups(calls) :
        ( /\ event.act = "CallSearchLogoAlternative"
          /\ lk.kind = "searchLogoAlternative"
          /\ Len(lk.trail) = 1 )
        => /\ \A i, j \in 1..Len(lk.provs) :
                ( /\ lk.provs[i] \notin LedgerUsed(lk.key)
                  /\ lk.provs[j] \in LedgerUsed(lk.key)
                  /\ lk.provs[j] # lk.currentProvider ) => i < j
           /\ \A i \in 1..Len(lk.provs) :
                lk.provs[i] = lk.currentProvider =>
                    \A p \in ProviderIds \ (LedgerFailed(lk.key) \cup {lk.currentProvider}) :
                        \E j \in 1..(i - 1) : lk.provs[j] = p

\* the lower-case alphanumeric projection of a raw string, character by character
Projection(s) ==
    LET RECURSIVE P(_)
        P(t) == IF t = <<>> THEN <<>>
                ELSE (IF Head(t) \in {"a", "b", "1"} THEN <<Head(t)>>
                      ELSE IF Head(t) = "A" THEN <<"a">>
                      ELSE IF Head(t) = "B" THEN <<"b">>
                      ELSE <<>>) \o P(Tail(t))
    IN  P(s)

\* C13: normalizeTerm returns, for every raw string, its lower-case
\* alphanumeric projection: applying it to its own result changes nothing, and
\* two raw strings that differ only in letter case, blanks and characters
\* outside [a-z0-9] get the same key.
C13_NormalizeIdempotentInsensitive ==
    returned.fn = "normalizeTerm" =>
        /\ returned.x = Projection(invocation.x)
        /\ returned.xx = returned.x
        /\ Projection(invocation.x) = Projection(invocation.y) => returned.x = returned.y

\* "A-1" and " a1" have been normalized, both to "a1"
C13_Witness ==
    /\ returned.fn = "normalizeTerm"
    /\ invocation.x = <<"A", "-", "1">>
    /\ invocation.y = <<Space, "a", "1">>
    /\ returned.x = <<"a", "1">>
    /\ returned.y = <<"a", "1">>

\* the content-type header names the SVG MIME type
NamesSvgMime(response) ==
    response.contentType \in {<<"image/", "svg", "+xml">>,
                              <<"image/", "svg", "+xml", "; charset=utf-8">>}

\* the body is text with an opening <svg, a closing </svg> and the namespace declaration
BodyIsSvg(response) ==
    response.data = [typeof |-> "string", text |-> <<"<svg", " ", XmlNamespace, ">", "</svg>">>]

\* C14 as stated: isValidSvgUrl never throws, and returns true exactly when
\* the request got an HTTP success status (2xx) and the content-type names
\* the SVG MIME type or the body has the root tags and the namespace
\* declaration; no answer (network error, timeout) gives false.
C14_ValidExactlyOnSuccessStatus ==
    returned.fn = "isValidSvgUrl" =>
        /\ returned.value \in BOOLEAN
        /\ returned.value =
             ( /\ invocation.response.kind = "response"
               /\ invocation.response.status \in 200..299
               /\ (NamesSvgMime(invocation.response) \/ BodyIsSvg(invocation.response)) )

\* C14 amended: as above with "status 200" in place of "success status".
C14_ValidExactlyOnStatus200 ==
    returned.fn = "isValidSvgUrl" =>
        /\ returned.value \in BOOLEAN
        /\ returned.value =
             ( /\ invocation.response.kind = "response"
               /\ invocation.response.status = 200
               /\ (NamesSvgMime(invocation.response) \/ BodyIsSvg(invocation.response)) )

\* a 200 answer labelled text/html whose body is an SVG document was accepted
C14_Witness ==
    /\ returned.fn = "isValidSvgUrl"
    /\ invocation.response.status = 200
    /\ invocation.response.contentType = <<"text/html">>
    /\ BodyIsSvg(invocation.response)
    /\ returned.value = TRUE

\* C15: in every state of the WorkArea component the grid holds at most
\* MAX_LOGOS (15) logos, whatever searches, uploads, drops, refreshes and
\* deletes were interleaved.
C15_GridAtMostMaxLogos == Len(logos) <= MAX_LOGOS

\* C16: every grid entry added by a search carries as its searchTerm the
\* term whose lookup produced the entry's Result, also when an earlier term of
\* the same search failed.
C16_SearchTermIsLookupTerm ==
    \A i \in 1..Len(logos) :
        logos[i].source # "upload" => logos[i].searchTerm = logos[i].lookupTerm

\* C21: the sweep empties the failed set of every key at once and changes
\* nothing else of the ledger or the cache: right after it failedSources holds
\* no key (no source is recently failed for any key), and every used set and
\* every cache entry is what it was.
C21_SweepClearsOnlyFailed ==
    [][event'.act = "Sweep" =>
          /\ failedSources' = EmptyMap
          /\ \A key \in Keys : \A p \in ProviderIds :
                ~(key \in DOMAIN failedSources' /\ p \in sets'[failedSources'[key]])
          /\ usedSources' = usedSources
          /\ searchCache' = searchCache]_vars

\* a sweep has just run while a cache entry and a used set existed and a
\* suspended lookup still holds a failed set with a provider in it
C21_Witness ==
    /\ event.act = "Sweep"
    /\ searchCache # EmptyMap
    /\ usedSources # EmptyMap
    /\ \E lk \in RunningLookups(calls) : SetOf(Machine, lk.tfs) # {}

\* C22: no recorded failure is lost: every provider a lookup has marked as
\* failed since the most recent sweep is in the failed set failedSources holds
\* for the key, and is in the failed set every later searchLogo of that key
\* consults, under every interleaving of lookups and the sweep.
C22_NoRecordedFailureLost ==
    /\ \A key \in Keys : ghostFailed[key] \subseteq LedgerFailed(key)
    /\ \A lk \in RunningLookups(calls) :
          lk.kind = "searchLogo" => lk.mustSkip \subseteq SetOf(Machine, lk.tfs)

\* ------------------------------------------------ termination of a lookup
\* axios is called with timeout: 5000, so every probe that is awaited comes
\* back; the continuation of a suspended lookup is therefore always taken.
FairApi ==
    /\ \A s \in Slots :
          WF_vars(\E valid \in ValidatorAnswers : ValidatorAnswersSearchLogo(s, valid))
    /\ \A s \in Slots :
          WF_vars(\E valid \in ValidatorAnswers : \E suffix \in RandomSuffixes :
                     ValidatorAnswersAlternative(s, valid, suffix))

SpecApiFair == SpecApi /\ FairApi

\* the URLs (source, generator pairs) a lookup has handed to the validator
Probed(lk) == {lk.trail[i] : i \in 1..Len(lk.trail)}

ProbedOnce(lk) == Cardinality(Probed(lk)) = Len(lk.trail)

\* C23: a lookup that has begun runs to completion or failure (every call in
\* flight eventually leaves its slot), and on the way it asks the validator
\* at most once for each (candidate source, generator) pair.
C23_TerminatesWithOneProbePerUrl ==
    /\ [](/\ \A lk \in RunningLookups(calls) : ProbedOnce(lk)
          /\ \A d \in Done : ProbedOnce(d.lk))
    /\ \A s \in Slots : (calls[s] # Idle) ~> (calls[s] = Idle)

\* the termination half of C23 on its own
C23_Terminates == \A s \in Slots : (calls[s] # Idle) ~> (calls[s] = Idle)

\* C27: the provider list a searchLogoAlternative call walks (the part of
\* prioritizedProviders it has not finished, the provider being probed
\* first) names no registry provider twice, whatever currentProvider and
\* whatever the used and failed sets are.
C27_EachProviderListedOnce ==
    \A lk \in RunningLookups(calls) :
        lk.kind = "searchLogoAlternative" =>
            \A i, j \in 1..Len(lk.provs) : i < j => lk.provs[i] # lk.provs[j]

\* the place of input position i among the positions in S, counted from 1
Rank(S, i) == Cardinality({j \in S : j <= i})

C30_CacheHoldsPrimaryResults ==
    \A key \in DOMAIN searchCache :
        LET entry == searchCache[key]
        IN  /\ entry.source \in ProviderIds
            /\ key \in DOMAIN usedSources
            /\ entry.source \in usedSources[key]
            /\ \E i \in 1..Len(Registry) :
                  /\ Registry[i].id = entry.source
                  /\ \E g \in 1..Len(ProviderUrls(entry.source, key)) :
                        entry.url = ProviderUrls(entry.source, key)[g]
                  /\ entry.sourceProvider = Registry[i].name
            /\ entry.id = <<entry.source, "-">> \o key

\* C30 witness: a refresh of a key returns a Result in a state where the
\* cache holds an entry of that key again, and a sweep has run
C30_Witness ==
    /\ epoch > 0
    /\ \E d \in AlternativeDone :
          /\ d.status = "ok"
          /\ d.lk.key \in DOMAIN searchCache

\* a searchLogo that threw although no sweep ran while it was suspended has
\* left every registry provider in the failed set of its key
FailedLookupFillsFailedSet ==
    \A d \in PrimaryDone :
        (d.status = "err" /\ ~d.lk.swept) => LedgerFailed(d.lk.key) = ProviderIds

\* the searchLogo calls of `key` that a searchMultipleLogos step starts throw
\* not-found at once and hand no URL of the key to the validator
FailsAgainUnprobed(key) ==
    /\ \A i \in 1..Len(event'.done) :
          (event'.done[i].lk.kind = "searchLogo" /\ event'.done[i].lk.key = key) =>
              /\ event'.done[i].status = "err"
              /\ event'.done[i].error = NotFoundError(event'.done[i].lk.term)
              /\ event'.done[i].lk.trail = <<>>
    /\ event'.probed \cap UrlsOf(key) = {}

\* C25 as stated: after a searchLogo of a key has thrown not-found with no
\* sweep interleaved, the failed set of the key holds every provider, and
\* until the next sweep every further searchLogo of the key throws not-found
\* again without a validator call.
C25_FailedTermFailsAgain ==
    /\ []FailedLookupFillsFailedSet
    /\ [][\A key \in Keys :
            (LedgerFailed(key) = ProviderIds /\ event'.act = "CallSearchMultipleLogos")
                => FailsAgainUnprobed(key)]_vars

\* C25 amended: the same for every further searchLogo of the key that finds
\* no cache entry (a searchLogo of the same key that was in flight may have
\* stored one).
C25_FailedTermFailsAgainOnCacheMiss ==
    /\ []FailedLookupFillsFailedSet
    /\ [][\A key \in Keys :
            ( /\ LedgerFailed(key) = ProviderIds
              /\ key \notin DOMAIN searchCache
              /\ event'.act = "CallSearchMultipleLogos" )
                => FailsAgainUnprobed(key)]_vars

\* C25 witness: a searchLogo throws not-found without a probe for a key that
\* was never resolved and never refreshed: an earlier searchLogo of the key
\* has exhausted every provider in this window
C25_Witness ==
    /\ event.act = "CallSearchMultipleLogos"
    /\ \E d \in PrimaryDone :
          /\ d.status = "err"
          /\ d.lk.trail = <<>>
          /\ d.lk.key \notin DOMAIN searchCache
          /\ LedgerUsed(d.lk.key) = {}
          /\ LedgerFailed(d.lk.key) = ProviderIds

\* the searchLogoAlternative calls that threw in the last step
AlternativeFailed == {d \in AlternativeDone : d.status = "err"}

\* C26 as stated: a searchLogoAlternative that throws "No alternative logo
\* found" leaves its key without a cache entry and with every registry
\* provider in the failed set, and a searchLogo of the key that follows
\* throws not-found without a probe.
C26_FailedRefreshLeavesTermUnresolvable ==
    /\ [](\A d \in AlternativeFailed :
            /\ d.lk.key \notin DOMAIN searchCache
            /\ LedgerFailed(d.lk.key) = ProviderIds)
    /\ [][\A key \in Keys :
            ( /\ \E d \in AlternativeFailed : d.lk.key = key
              /\ event'.act = "CallSearchMultipleLogos" )
                => FailsAgainUnprobed(key)]_vars

\* C26 amended: the same for a searchLogoAlternative during which no sweep
\* ran and no searchLogo of the same key was in flight.
C26_UndisturbedFailedRefreshLeavesTermUnresolvable ==
    /\ [](\A d \in AlternativeFailed :
            /\ ~d.lk.overlap => d.lk.key \notin DOMAIN searchCache
            /\ ~d.lk.swept => LedgerFailed(d.lk.key) = ProviderIds)
    /\ [][\A key \in Keys :
            ( /\ \E d \in AlternativeFailed :
                    d.lk.key = key /\ ~d.lk.overlap /\ ~d.lk.swept
              /\ event'.act = "CallSearchMultipleLogos" )
                => FailsAgainUnprobed(key)]_vars

\* C26 witness: a searchLogo throws not-found without a probe for a key that
\* was resolved before (a URL of it was valid then) and whose cache entry and
\* providers a failed refresh has used up
C26_Witness ==
    /\ event.act = "CallSearchMultipleLogos"
    /\ started = 3
    /\ \E d \in PrimaryDone :
          /\ d.status = "err"
          /\ d.lk.trail = <<>>
          /\ d.lk.key \in everValid
          /\ LedgerUsed(d.lk.key) # {}
          /\ d.lk.key \notin DOMAIN searchCache
          /\ LedgerFailed(d.lk.key) = ProviderIds

\* the grid entries a refresh of `logo` may write: those with the logo's id
\* (ids repeat when a term was searched twice)
EntriesOf(logo) == {i \in 1..Len(logos) : logos[i].id = logo.id}

\* C29: when the searchLogoAlternative awaited by handleRefresh has settled,
\* the grid keeps its length, the entry the refresh was started on (one with
\* the id of the logo handed to handleRefresh) either takes the new Result
\* with its searchTerm kept or, on failure, only has its refreshing flag
\* reset, and every other entry is left as it was, also when entries were
\* deleted or added in the meantime; when the refreshed entry is gone
\* nothing is written.
C29_RefreshWritesItsOwnEntry ==
    [][\A h \in handlers :
          (h.op = "handleRefresh" /\ h \notin handlers') =>
              /\ Len(logos') = Len(logos)
              /\ EntriesOf(h.logo) = {} => logos' = logos
              /\ EntriesOf(h.logo) # {} =>
                    \E i \in EntriesOf(h.logo) :
                        /\ \/ /\ logos'[i].url # h.logo.url
                              /\ logos'[i].searchTerm = h.logo.searchTerm
                              /\ ~logos'[i].isRefreshing
                           \/ logos'[i] = [logos[i] EXCEPT !.isRefreshing = FALSE]
                        /\ \A j \in 1..Len(logos) : j # i => logos'[j] = logos[j]]_handlers

\* the rows of logo_searches with logo_found = true
FoundRows == {i \in 1..Len(logoSearches) : logoSearches[i].logo_found}

\* C24: the repository never holds two found-records with the same content
\* hash, whatever the order and interleaving of the saveLogoToInternalRepo
\* calls, and a save whose content_hash select finds a row returns false and
\* has neither uploaded nor inserted anything.
C24_SaveDeduplicates ==
    /\ \A i, j \in FoundRows :
          i < j => logoSearches[i].content_hash # logoSearches[j].content_hash
    /\ (saved.ended /\ saved.hashMatch) =>
          ~saved.result /\ ~saved.uploaded /\ ~saved.inserted

\* the second half of C24 on its own
C24_HashMatchWritesNothing ==
    (saved.ended /\ saved.hashMatch) =>
        ~saved.result /\ ~saved.uploaded /\ ~saved.inserted
====
